---- MODULE Spec2Model ----
(***************************************************************************)
(* godis: an in-memory key-value store (database.MapDatabase) served over  *)
(* one HTTP endpoint.  net/http runs the handler registered in listen()    *)
(* on one goroutine per request; the goroutines share one MapDatabase.     *)
(*                                                                         *)
(* A goroutine's position is pc[p].  Steps that touch only the goroutine's *)
(* own locals (decoding, building and marshalling the Response, writing    *)
(* it) are folded into the neighbouring step on shared state; the steps on *)
(* shared state (mutex Lock/Unlock, the start and the end of a map access  *)
(* or a map assignment) are separate actions.                              *)
(***************************************************************************)
EXTENDS Integers, Sequences, FiniteSets, TLC

\* ------------------------------------------------------------- bounds ---
\* The number of request goroutines that can be running at once.
NumProcs == 2

Procs == 1..NumProcs

\* The keys and values requests carry.  Both include the empty string, which
\* the code accepts as a key and as a value.
Keys == {"", "foo"}
Values == {"", "bar"}
\* "GET" and "SET" are the ops the switch in listen() knows; the others reach
\* its default case ("" is a request without an op field).
Ops == {"GET", "SET", "DELETE", ""}

\* ------------------------------------------------------ Go data values ---
NilErr == "<nil>"
NilRef == 0
\* A string whose header (pointer, length) was read while it was being
\* written: not the value of any Set.
Torn == "<torn>"
\* No Set on the key has completed yet (history only).
NoSet == "<none>"

\* type Request struct { Op, Key, Value string }.  ok = FALSE stands for a
\* body json.Decoder cannot decode; the struct then keeps its zero value.
Request(op, key, value) == [ok |-> TRUE, Op |-> op, Key |-> key, Value |-> value]
BadBody == [ok |-> FALSE, Op |-> "", Key |-> "", Value |-> ""]
Bodies ==
    {Request("GET", k, "") : k \in Keys}
    \cup {Request("SET", k, v) : k \in Keys, v \in Values}
    \cup {Request(op, "", "") : op \in Ops \ {"GET", "SET"}}
    \cup {BadBody}

\* type Response struct { Error error; Status uint; Value string }
Response(err, status, value) == [Error |-> err, Status |-> status, Value |-> value]

\* What the client receives: the HTTP status code and the body, which is
\* either a JSON object (json = TRUE; fields = the members present) or text.
NoRsp == [code |-> 0, json |-> FALSE, fields |-> {}, Error |-> "", Status |-> 0,
          Value |-> "", text |-> ""]
TextRspNoHeader(code, text) == [NoRsp EXCEPT !.code = 200, !.text = text]
TextRsp(code, text) == [NoRsp EXCEPT !.code = code, !.text = text]

\* json.Marshal(rsp).  Error and Value carry `json:",omitempty"`: a nil
\* Error and an empty Value are left out.  A non-nil Error holds an
\* *errors.errorString, a struct without exported fields: it encodes as {}.
\* Status has no omitempty and is always written.
Marshal(r) ==
    [json |-> TRUE,
     fields |-> {"Status"}
                \cup (IF r.Error # NilErr THEN {"Error"} ELSE {})
                \cup (IF r.Value # "" THEN {"Value"} ELSE {}),
     Error |-> IF r.Error # NilErr THEN "{}" ELSE "",
     Status |-> r.Status,
     Value |-> r.Value]

\* w.Write(jsonBytes) without a WriteHeader: the status code is 200.
JsonRspStatusCode(j) == [NoRsp EXCEPT !.code = j.Status, !.json = TRUE, !.fields = j.fields,
                         !.Error = j.Error, !.Status = j.Status, !.Value = j.Value]
JsonRsp(j) == [NoRsp EXCEPT !.code = 200, !.json = TRUE, !.fields = j.fields,
               !.Error = j.Error, !.Status = j.Status, !.Value = j.Value]

\* ------------------------------------------------------------ Go maps ---
\* A map[string]string is a finite function; the zero map value is nil.
EmptyMap == [k \in {} |-> ""]
HasKey(m, k) == k \in DOMAIN m
\* v, ok := m[key]
MapAccess(m, k) == IF HasKey(m, k) THEN [v |-> m[k], ok |-> TRUE]
                   ELSE [v |-> "", ok |-> FALSE]
\* m[key] = value
MapAssignOnly(m, k, v) == [x \in {k} |-> v]
MapAssignIfAbsent(m, k, v) == [x \in DOMAIN m \cup {k} |-> IF x \in DOMAIN m THEN m[x] ELSE v]
MapAssignAppend(m, k, v) ==
    [x \in DOMAIN m \cup {k} |-> IF x # k THEN m[x]
                                 ELSE IF x \in DOMAIN m THEN m[x] \o v ELSE v]
MapAssignAll(m, k, v) == [x \in DOMAIN m \cup {k} |-> v]
MapAssign(m, k, v) == [x \in DOMAIN m \cup {k} |-> IF x = k THEN v ELSE m[x]]

VARIABLES
    db,        \* the MapDatabase of main(): [hashtableMutex, hashtable]
    heap,      \* the map objects: reference -> contents
    pc,        \* pc[p]: where request goroutine p is
    req,       \* req[p]: the body goroutine p is serving (or served last)
    rsp,       \* rsp[p]: the response goroutine p wrote last
    crashed,   \* the runtime ended the process with a fatal error
    lastSet,   \* history: lastSet[k] = the value of the Set on k whose
               \* critical section ended last, or NoSet
    calls,     \* history: calls[p] = the Store calls made for p's request
    written,   \* history: written[p] = the responses written for p's request
    gotten     \* history: the keys for which some Get has returned a value

vars == <<db, heap, pc, req, rsp, crashed, lastSet, calls, written, gotten>>

\* func NewMapDatabase() MapDatabase: an unlocked mutex and a fresh empty map
\* (allocated at reference 1).  hashtableMutex: 0 = unlocked, p = locked by p.
NewMapDatabase == [hashtableMutex |-> 0, hashtable |-> 1]

\* The contents of the map a MapDatabase value d refers to in heap h.  A
\* read of a nil map finds nothing.
Hashtable(d, h) == IF d.hashtable = NilRef THEN EmptyMap ELSE h[d.hashtable]

\* Get has a value receiver: the call copies the struct.  The copy of the
\* hashtable field is a copy of the reference, so it names the same map.
GetReceiverZeroMap(d) == [hashtableMutex |-> d.hashtableMutex, hashtable |-> NilRef]
GetReceiver(d) == [hashtableMutex |-> d.hashtableMutex, hashtable |-> d.hashtable]

\* func (db MapDatabase) Get(key string) (string, error), given the outcome
\* of its map access.
GetResult(a) == IF ~a.ok THEN [value |-> "", err |-> "this value doesn't exist"]
                ELSE [value |-> a.v, err |-> NilErr]

\* db.Get(key) on database d and heap h, when nothing writes the map meanwhile.
Get(d, h, key) == GetResult(MapAccess(Hashtable(GetReceiver(d), h), key))

Init ==
    /\ db = NewMapDatabase
    /\ heap = [r \in {1} |-> EmptyMap]
    /\ pc = [p \in Procs |-> "idle"]
    /\ req = [p \in Procs |-> BadBody]
    /\ rsp = [p \in Procs |-> NoRsp]
    /\ crashed = FALSE
    /\ lastSet = [k \in Keys |-> NoSet]
    /\ calls = [p \in Procs |-> <<>>]
    /\ written = [p \in Procs |-> 0]
    /\ gotten = {}

InFlight(p) == pc[p] \notin {"idle", "done"}

\* --------------------------------------------------------- dispatcher ---
\* switch reqBody.Op: the handler a decoded request is routed to.
RouteDefaultSet(op) == IF op = "GET" THEN "handleGet" ELSE "handleSet"
Route(op) == IF op = "GET" THEN "handleGet"
             ELSE IF op = "SET" THEN "handleSet"
             ELSE "default"

\* The text of the default case: "Unrecognised op: " + reqBody.Op
UnrecognisedNoOp(op) == "Unrecognised op"
Unrecognised(op) == "Unrecognised op: " \o op

\* The Store calls of the handlers: db.Get(reqBody.Key) in handleGet and
\* db.Set(reqBody.Key, reqBody.Value) in handleSet.
GetCallValue(r) == [fn |-> "Get", key |-> r.Value, value |-> ""]
GetCall(r) == [fn |-> "Get", key |-> r.Key, value |-> ""]
SetCallSwapped(r) == [fn |-> "Set", key |-> r.Value, value |-> r.Key]
SetCall(r) == [fn |-> "Set", key |-> r.Key, value |-> r.Value]

\* The handler func of listen(), up to and including the switch on
\* reqBody.Op.  An undecodable body: WriteHeader(400) and the decoder's
\* message.  An op that is neither GET nor SET: WriteHeader(500) and
\* "Unrecognised op: " + Op.  GET and SET enter handleGet and handleSet.
ServeHTTP(p, body) ==
    /\ ~crashed
    /\ ~InFlight(p)
    /\ req' = [req EXCEPT ![p] = body]
    /\ calls' = [calls EXCEPT ![p] = <<>>]
    /\ \/ /\ ~body.ok
          /\ rsp' = [rsp EXCEPT ![p] = TextRsp(400, "invalid character")]
          /\ written' = [written EXCEPT ![p] = 1]
          /\ pc' = [pc EXCEPT ![p] = "done"]
       \/ /\ body.ok /\ Route(body.Op) = "handleGet"
          /\ rsp' = [rsp EXCEPT ![p] = NoRsp]
          /\ written' = [written EXCEPT ![p] = 0]
          /\ pc' = [pc EXCEPT ![p] = "Get"]
       \/ /\ body.ok /\ Route(body.Op) = "handleSet"
          /\ rsp' = [rsp EXCEPT ![p] = NoRsp]
          /\ written' = [written EXCEPT ![p] = 0]
          /\ pc' = [pc EXCEPT ![p] = "Set"]
       \/ /\ body.ok /\ Route(body.Op) = "default"
          /\ rsp' = [rsp EXCEPT ![p] = TextRsp(500, Unrecognised(body.Op))]
          /\ written' = [written EXCEPT ![p] = 1]
          /\ pc' = [pc EXCEPT ![p] = "done"]
    /\ UNCHANGED <<db, heap, crashed, lastSet, gotten>>

\* handleGet after db.Get returned (value, err): build the Response, marshal
\* it and write it with the default status code.
handleGet(g) ==
    JsonRsp(Marshal(IF g.err # NilErr THEN Response(g.err, 500, "")
                    ELSE Response(NilErr, 200, g.value)))

\* handleSet after db.Set returned err.  Set returns nil always; the err
\* branch writes a plain 500.
handleSetInverted(err) ==
    IF err = NilErr THEN TextRsp(500, err)
    ELSE JsonRsp(Marshal(Response(NilErr, 200, "")))
handleSet(err) ==
    IF err # NilErr THEN TextRsp(500, err)
    ELSE JsonRsp(Marshal(Response(NilErr, 200, "")))

\* -------------------------------------------------------------- Store ---
\* Some Set is between the start and the end of its map assignment.
Assigning == \E q \in Procs : pc[q] = "Set_assign"

\* db.Get starts its map access, db.hashtable[key].  It takes no lock.  An
\* access that overlaps a map assignment is a data race.
GetBegin(p) ==
    /\ ~crashed
    /\ pc[p] = "Get"
    /\ pc' = [pc EXCEPT ![p] = IF Assigning THEN "Get_raced" ELSE "Get_access"]
    /\ calls' = [calls EXCEPT ![p] = Append(@, GetCall(req[p]))]
    /\ UNCHANGED <<db, heap, req, rsp, crashed, lastSet, written, gotten>>

\* What a map access for key k that raced with an assignment can produce.
\* It may miss the entry (the assignment is moving or growing the buckets).
\* If k has an entry or is being assigned one, it may find it: with the value
\* the map holds, with the value being assigned, with the zero value of a
\* slot whose value is not stored yet, or with a torn string.  (The runtime
\* may also stop the process: see GetEnd.)
RaceOutcomes(k) ==
    LET m == Hashtable(db, heap)
        assigned == {req[q].Value : q \in {r \in Procs : pc[r] = "Set_assign" /\ req[r].Key = k}}
        found == (IF HasKey(m, k) THEN {m[k], Torn} ELSE {})
                 \cup (IF assigned # {} THEN assigned \cup {"", Torn} ELSE {})
    IN  {[v |-> "", ok |-> FALSE]} \cup {[v |-> x, ok |-> TRUE] : x \in found}

\* handleGet writes response r for p's request.
GetResponds(p, r) ==
    /\ rsp' = [rsp EXCEPT ![p] = r]
    /\ written' = [written EXCEPT ![p] = @ + 1]
    /\ gotten' = IF r.Status = 200 THEN gotten \cup {req[p].Key} ELSE gotten
    /\ pc' = [pc EXCEPT ![p] = "done"]
    /\ UNCHANGED crashed

\* The map access of db.Get ends, Get returns and handleGet responds.
GetEnd(p) ==
    /\ ~crashed
    /\ \/ /\ pc[p] = "Get_access"
          /\ GetResponds(p, handleGet(Get(db, heap, GetCall(req[p]).key)))
       \/ /\ pc[p] = "Get_raced"
          /\ \E a \in RaceOutcomes(GetCall(req[p]).key) :
                GetResponds(p, handleGet(GetResult(a)))
       \/ \* fatal error: concurrent map read and map write
          /\ pc[p] = "Get_raced"
          /\ crashed' = TRUE
          /\ UNCHANGED <<pc, rsp, written, gotten>>
    /\ UNCHANGED <<db, heap, req, lastSet, calls>>

\* db.hashtableMutex.Lock() blocks while the mutex is locked, then locks it.
LockedNever(d) == FALSE
Locked(d) == d.hashtableMutex # 0
LockForgets(d, p) == d
Lock(d, p) == [d EXCEPT !.hashtableMutex = p]
\* db.hashtableMutex.Unlock()
Unlock(d) == [d EXCEPT !.hashtableMutex = 0]

SetLock(p) ==
    /\ ~crashed
    /\ pc[p] = "Set"
    /\ ~Locked(db)
    /\ db' = Lock(db, p)
    /\ pc' = [pc EXCEPT ![p] = "Set_locked"]
    /\ calls' = [calls EXCEPT ![p] = Append(@, SetCall(req[p]))]
    /\ UNCHANGED <<heap, req, rsp, crashed, lastSet, written, gotten>>

\* db.hashtable[key] = value starts.  Every map access in progress now
\* overlaps it.
SetAssignBegin(p) ==
    /\ ~crashed
    /\ pc[p] = "Set_locked"
    /\ pc' = [q \in Procs |-> IF q = p THEN "Set_assign"
                              ELSE IF pc[q] = "Get_access" THEN "Get_raced"
                              ELSE pc[q]]
    /\ UNCHANGED <<db, heap, req, rsp, crashed, lastSet, calls, written, gotten>>

\* db.hashtable[key] = value ends: the map holds the entry.
SetAssignEnd(p) ==
    /\ ~crashed
    /\ pc[p] = "Set_assign"
    /\ heap' = [heap EXCEPT ![db.hashtable] =
                    MapAssign(@, SetCall(req[p]).key, SetCall(req[p]).value)]
    /\ pc' = [pc EXCEPT ![p] = "Set_unlock"]
    /\ UNCHANGED <<db, req, rsp, crashed, lastSet, calls, written, gotten>>

\* return nil runs the deferred Unlock; handleSet responds.
SetReturn(p) ==
    /\ ~crashed
    /\ pc[p] = "Set_unlock"
    /\ db' = Unlock(db)
    /\ rsp' = [rsp EXCEPT ![p] = handleSet(NilErr)]
    /\ pc' = [pc EXCEPT ![p] = "done"]
    /\ written' = [written EXCEPT ![p] = @ + 1]
    /\ lastSet' = [lastSet EXCEPT ![req[p].Key] = req[p].Value]
    /\ UNCHANGED <<heap, req, crashed, calls, gotten>>

Next ==
    \E p \in Procs :
        \/ \E body \in Bodies : ServeHTTP(p, body)
        \/ GetBegin(p)
        \/ GetEnd(p)
        \/ SetLock(p)
        \/ SetAssignBegin(p)
        \/ SetAssignEnd(p)
        \/ SetReturn(p)

Spec == Init /\ [][Next]_vars

\* ----------------------------------------------------------- vocabulary ---
IsGet(p) == req[p].ok /\ req[p].Op = "GET"
IsSet(p) == req[p].ok /\ req[p].Op = "SET"
\* p is inside Set's critical section: between Lock and the deferred Unlock.
InCS(p) == pc[p] \in {"Set_locked", "Set_assign", "Set_unlock"}
\* p is inside Get's map access.
Accessing(p) == pc[p] \in {"Get_access", "Get_raced"}
\* No other request is being served.
Alone(p) == \A q \in Procs \ {p} : ~InFlight(q)
\* Steps: p's Get returns; p's Get returns from an access nothing overlapped;
\* p's Set finishes its assignment; p's Set returns.
GetReturns(p) == Accessing(p) /\ pc'[p] = "done"
CleanGetReturns(p) == pc[p] = "Get_access" /\ pc'[p] = "done"
SetAssigns(p) == pc[p] = "Set_assign" /\ pc'[p] = "Set_unlock"
SetReturns(p) == pc[p] = "Set_unlock" /\ pc'[p] = "done"
\* The response handleGet writes for a found value v; for a missing key.
Found(v) == handleGet([value |-> v, err |-> NilErr])
NotFound == handleGet(GetResult([v |-> "", ok |-> FALSE]))
\* The response handleSet writes for a successful Set.
SetOk == handleSet(NilErr)

\* ------------------------------------------------------------------ C1 ---
\* C1: no Get executes its map access while a Set is between acquiring and
\* releasing hashtableMutex.
C1_GetExcludedBySet ==
    \A p, q \in Procs : ~(Accessing(p) /\ InCS(q))

\* ------------------------------------------------------------------ C2 ---
\* C2: in a sequential history, a Get(k) that follows a completed Set(k, v)
\* (the last Set on k) returns v without error.  Get runs on a copy of the
\* database (value receiver), Set on the database itself.
C2_SetThenGet ==
    [][\A p \in Procs :
         (CleanGetReturns(p) /\ Alone(p) /\ lastSet[req[p].Key] # NoSet)
         => rsp'[p] = Found(lastSet[req[p].Key])]_vars

C2_Witness ==
    \E p \in Procs :
        /\ pc[p] = "done" /\ IsGet(p) /\ Alone(p)
        /\ lastSet[req[p].Key] = "bar"
        /\ rsp[p] = Found("bar")

\* ------------------------------------------------------------------ C3 ---
\* The values of the Sets on k that have reached the map: the value it
\* holds, the value of the last completed Set, the values being assigned.
WrittenTo(k) ==
    (IF HasKey(Hashtable(db, heap), k) THEN {Hashtable(db, heap)[k]} ELSE {})
    \cup ({lastSet[k]} \ {NoSet})
    \cup {req[q].Value : q \in {r \in Procs : /\ pc[r] \in {"Set_assign", "Set_unlock"}
                                              /\ req[r].Key = k}}

\* C3: every value a successful Get(k) returns is the value argument of a
\* Set(k, .) applied to the map: the value before a concurrent Set or the
\* value it writes, never anything else.
C3_GetReturnsWrittenValue ==
    [][\A p \in Procs :
         (GetReturns(p) /\ rsp'[p].Status = 200)
         => \E v \in WrittenTo(req[p].Key) : rsp'[p] = Found(v)]_vars

\* ------------------------------------------------------------------ C4 ---
\* C4: concurrent Sets on distinct keys all succeed and none is lost: when a
\* Set(k, v) returns, its response is the success response and Get(k) yields
\* v; and the assignment of a Set on k leaves what Get yields for every other
\* key as it was, whatever the other requests are doing.
C4_DistinctKeysNoLostUpdate ==
    [][\A p \in Procs :
         /\ SetReturns(p)
            => /\ rsp'[p] = SetOk
               /\ rsp'[p].code = 200 /\ rsp'[p].Status = 200
               /\ Get(db', heap', req[p].Key) = [value |-> req[p].Value, err |-> NilErr]
         /\ SetAssigns(p)
            => \A k \in Keys \ {req[p].Key} : Get(db', heap', k) = Get(db, heap, k)]_vars

C4_Witness ==
    \E p, q \in Procs :
        /\ pc[p] = "done" /\ IsSet(p) /\ pc[q] = "done" /\ IsSet(q)
        /\ req[p].Key # req[q].Key
        /\ req[p].Value = "bar" /\ req[q].Value = "bar"
        /\ rsp[p] = SetOk /\ rsp[q] = SetOk
        /\ Get(db, heap, req[p].Key).value = "bar"
        /\ Get(db, heap, req[q].Key).value = "bar"

\* ------------------------------------------------------------------ C5 ---
\* C5: whenever no Set on k is inside its critical section, the value of k is
\* the value written by the Set on k whose critical section ended last (and
\* k is absent if there was none): after two concurrent Sets on k, the one
\* that left its critical section last has won.
C5_LastCriticalSectionWins ==
    \A k \in Keys :
        (\A q \in Procs : ~(InCS(q) /\ req[q].Key = k))
        => Get(db, heap, k) = IF lastSet[k] = NoSet
                              THEN GetResult([v |-> "", ok |-> FALSE])
                              ELSE [value |-> lastSet[k], err |-> NilErr]

C5_Witness ==
    \E p, q \in Procs :
        /\ pc[p] = "done" /\ IsSet(p) /\ pc[q] = "done" /\ IsSet(q)
        /\ req[p].Key = req[q].Key /\ req[p].Value # req[q].Value
        /\ lastSet[req[p].Key] = req[p].Value
        /\ Get(db, heap, req[p].Key).value = "bar"

\* ------------------------------------------------------------------ C6 ---
\* C6: at most one Set is inside its critical section, and it is the one
\* that holds hashtableMutex.
C6_MutualExclusion ==
    /\ Cardinality({p \in Procs : InCS(p)}) <= 1
    /\ \A p \in Procs : InCS(p) => db.hashtableMutex = p

C6_Witness ==
    \E p, q \in Procs : pc[p] = "Set_assign" /\ pc[q] = "Set" /\ req[p].Key = req[q].Key

\* ------------------------------------------------------------------ C7 ---
\* C7: Get(k) answers with the error exactly when k is absent: a Get on a key
\* no Set has targeted fails, and a Get on a key some Set has set succeeds.
C7_GetFailsIffAbsent ==
    [][\A p \in Procs :
         GetReturns(p)
         => /\ lastSet[req[p].Key] # NoSet => rsp'[p].Status = 200
            /\ (/\ ~HasKey(Hashtable(db, heap), req[p].Key)
                /\ \A q \in Procs : ~(InFlight(q) /\ IsSet(q) /\ req[q].Key = req[p].Key))
               => rsp'[p] = NotFound]_vars

\* ------------------------------------------------------------------ C8 ---
\* C8: a Set on a key that already has a value overwrites it: the assignment
\* replaces the value and adds no entry, and when Set(k, v2) returns after a
\* Set(k, v1) has completed, Get(k) yields v2.
C8_LastWriteWins ==
    [][\A p \in Procs :
         /\ (SetAssigns(p) /\ HasKey(Hashtable(db, heap), req[p].Key))
            => /\ DOMAIN Hashtable(db', heap') = DOMAIN Hashtable(db, heap)
               /\ Hashtable(db', heap')[req[p].Key] = req[p].Value
         /\ (SetReturns(p) /\ lastSet[req[p].Key] # NoSet)
            => Get(db', heap', req[p].Key) = [value |-> req[p].Value, err |-> NilErr]]_vars

C8_Witness ==
    \E p \in Procs :
        /\ pc[p] = "Set_unlock" /\ req[p].Value = "bar"
        /\ lastSet[req[p].Key] = ""
        /\ Get(db, heap, req[p].Key) = [value |-> "bar", err |-> NilErr]

\* ------------------------------------------------------------------ C9 ---
\* C9: a Set(k, v) applied when the last completed Set on k was Set(k, v)
\* changes nothing: the map, and so what Get yields for every key, is as the
\* first application left it.
C9_SetIdempotent ==
    [][\A p \in Procs :
         (SetAssigns(p) /\ lastSet[req[p].Key] = req[p].Value)
         => /\ heap' = heap
            /\ \A k \in Keys : Get(db', heap', k) = Get(db, heap, k)]_vars

C9_Witness ==
    \E p \in Procs :
        /\ pc[p] = "Set_unlock" /\ req[p].Value = "bar"
        /\ lastSet[req[p].Key] = "bar"
        /\ Get(db, heap, req[p].Key) = [value |-> "bar", err |-> NilErr]

\* ----------------------------------------------------------------- C10 ---
\* C10: a SET request is answered with a payload of status 200, and a GET
\* request that follows a completed SET of k to v (sequentially) is answered
\* with a payload of status 200 whose value field is present and equal to v.
C10_RoundTrip ==
    [][\A p \in Procs :
         /\ SetReturns(p)
            => rsp'[p].code = 200 /\ rsp'[p].json /\ rsp'[p].Status = 200
         /\ (CleanGetReturns(p) /\ Alone(p) /\ lastSet[req[p].Key] # NoSet)
            => /\ rsp'[p].code = 200 /\ rsp'[p].json /\ rsp'[p].Status = 200
               /\ "Value" \in rsp'[p].fields
               /\ rsp'[p].Value = lastSet[req[p].Key]]_vars

\* ----------------------------------------------------------------- C11 ---
\* C11: a GET for a key absent from the Store is answered with a payload of
\* status 500 whose error field carries "this value doesn't exist" and that
\* has no value field.
C11_MissingKeyPayload ==
    [][\A p \in Procs :
         (CleanGetReturns(p) /\ ~HasKey(Hashtable(db, heap), req[p].Key))
         => /\ rsp'[p].json /\ rsp'[p].Status = 500
            /\ "Error" \in rsp'[p].fields
            /\ rsp'[p].Error = "this value doesn't exist"
            /\ "Value" \notin rsp'[p].fields]_vars

\* ----------------------------------------------------------------- C12 ---
\* C12: a SET request is never rejected: for every key and value it goes on
\* to Store.Set, and when it is answered the entry is in the map and the
\* answer is a payload of status 200 with no value and no error.
C12_SetAlwaysSucceeds ==
    \A p \in Procs :
        IsSet(p)
        => /\ pc[p] \in {"Set", "Set_locked", "Set_assign", "Set_unlock", "done"}
           /\ pc[p] = "done"
              => /\ HasKey(Hashtable(db, heap), req[p].Key)
                 /\ rsp[p].code = 200 /\ rsp[p].json
                 /\ rsp[p].Status = 200 /\ rsp[p].fields = {"Status"}

C12_Witness ==
    \E p \in Procs :
        /\ pc[p] = "done" /\ IsSet(p) /\ req[p].Key = "" /\ req[p].Value = ""
        /\ rsp[p].Status = 200 /\ rsp[p].fields = {"Status"}

\* ----------------------------------------------------------------- C13 ---
\* C13: a decoded request whose op is neither GET nor SET is answered at
\* once with status 500 and a message that names the op, and no Store call
\* is made for it.
C13_UnrecognisedOp ==
    \A p \in Procs :
        (req[p].ok /\ req[p].Op \notin {"GET", "SET"})
        => /\ pc[p] = "done"
           /\ rsp[p].code = 500 /\ ~rsp[p].json
           /\ rsp[p].text = "Unrecognised op: " \o req[p].Op
           /\ calls[p] = <<>>

C13_Witness ==
    \E p, q \in Procs :
        /\ pc[p] = "done" /\ req[p].ok /\ req[p].Op = "DELETE"
        /\ rsp[p].text = "Unrecognised op: DELETE"
        /\ pc[q] = "done" /\ req[q].ok /\ req[q].Op = ""
        /\ rsp[q].code = 500

\* ----------------------------------------------------------------- C14 ---
\* C14: a request whose body cannot be decoded is answered at once with
\* status 400, no Store call is made for it, and the server goes on serving:
\* unless the process has been stopped, the goroutine can take any request.
C14_MalformedRequest ==
    \A p \in Procs :
        (pc[p] = "done" /\ ~req[p].ok)
        => /\ rsp[p].code = 400 /\ ~rsp[p].json
           /\ calls[p] = <<>> /\ written[p] = 1
           /\ ~crashed => \A b \in Bodies : ENABLED ServeHTTP(p, b)

C14_Witness ==
    \E p, q \in Procs :
        /\ pc[p] = "done" /\ ~req[p].ok /\ rsp[p].code = 400
        /\ pc[q] = "Set_assign"

\* ----------------------------------------------------------------- C15 ---
\* p answers its request with a failure in this step.
Fails(p) ==
    /\ written'[p] = written[p] + 1 \/ (written'[p] = 1 /\ req'[p] # req[p])
    /\ pc'[p] = "done"
    /\ rsp'[p].code # 200 \/ rsp'[p].Status # 200

\* C15: the mapping changes only in the assignment of a SET request; a step
\* of any other request leaves every key's presence and value as they were;
\* and a step in which a request fails changes no other request's response.
C15_OnlySetChangesMap ==
    [][/\ Hashtable(db', heap') # Hashtable(db, heap)
          => \E p \in Procs : IsSet(p) /\ SetAssigns(p)
       /\ \A p \in Procs :
            (pc'[p] # pc[p] /\ ~(IsSet(p) /\ InFlight(p)))
            => \A k \in Keys : Get(db', heap', k) = Get(db, heap, k)
       /\ \A p \in Procs :
            Fails(p) => \A q \in Procs \ {p} : rsp'[q] = rsp[q]]_vars

C15_Witness ==
    \E p, q \in Procs :
        /\ pc[p] = "done" /\ IsGet(p) /\ rsp[p].Status = 500
        /\ pc[q] = "done" /\ IsSet(q) /\ rsp[q].Status = 200
        /\ req[p].Key # req[q].Key

\* ----------------------------------------------------------------- C16 ---
\* Goroutine p can take its next step.
CanStep(p) ==
    ENABLED (\/ GetBegin(p) \/ GetEnd(p) \/ SetLock(p)
             \/ SetAssignBegin(p) \/ SetAssignEnd(p) \/ SetReturn(p))

\* C16: every started operation runs to completion: a request being served
\* can take its next step, or waits for the mutex while its holder can; the
\* mutex is free whenever no Set is in its critical section.
C16_RunsToCompletion ==
    /\ \A p \in Procs :
         InFlight(p)
         => \/ CanStep(p)
            \/ pc[p] = "Set" /\ \E q \in Procs : InCS(q) /\ CanStep(q)
    /\ (\A p \in Procs : ~InCS(p)) => db.hashtableMutex = 0

\* ----------------------------------------------------------------- C17 ---
\* C17: every key present in the mapping is a non-empty string.
C17_KeysNonEmpty ==
    \A k \in DOMAIN Hashtable(db, heap) : k # ""

\* C17, as amended: every key present in the mapping is the key of a SET
\* request that was accepted and has assigned it; it may be the empty string.
C17_KeysComeFromSets ==
    \A k \in DOMAIN Hashtable(db, heap) :
        /\ k \in Keys
        /\ \/ lastSet[k] # NoSet
           \/ \E p \in Procs : pc[p] = "Set_unlock" /\ IsSet(p) /\ req[p].Key = k

C17_Witness ==
    /\ HasKey(Hashtable(db, heap), "")
    /\ \E p \in Procs : pc[p] = "done" /\ IsSet(p) /\ req[p].Key = ""
                         /\ rsp[p].Status = 200

\* ----------------------------------------------------------------- C18 ---
\* A Set on k has been applied: completed, or past its assignment.
Applied(k) ==
    \/ lastSet[k] # NoSet
    \/ \E p \in Procs : pc[p] = "Set_unlock" /\ IsSet(p) /\ req[p].Key = k

\* C18: entries are never deleted: the set of present keys only grows, a key
\* is present exactly when a Set on it has been applied, and once a Get(k)
\* has succeeded every later Get(k) succeeds.
C18_EntriesPersist ==
    [][/\ DOMAIN Hashtable(db, heap) \subseteq DOMAIN Hashtable(db', heap')
       /\ \A k \in Keys : HasKey(Hashtable(db, heap), k) <=> Applied(k)
       /\ \A p \in Procs :
            (GetReturns(p) /\ req[p].Key \in gotten) => rsp'[p].Status = 200]_vars

\* ----------------------------------------------------------------- C19 ---
\* C19: a GET request makes exactly one Store call, Get with the request's
\* key; a SET request makes exactly one, Set with the request's key and
\* value; and a request that has been answered was answered exactly once.
C19_OneCallOneResponse ==
    \A p \in Procs :
        /\ InFlight(p) => written[p] = 0
        /\ pc[p] = "done" => written[p] = 1
        /\ IsGet(p)
           => calls[p] = IF pc[p] = "Get" THEN <<>>
                         ELSE <<[fn |-> "Get", key |-> req[p].Key, value |-> ""]>>
        /\ IsSet(p)
           => calls[p] = IF pc[p] = "Set" THEN <<>>
                         ELSE <<[fn |-> "Set", key |-> req[p].Key,
                                 value |-> req[p].Value]>>

C19_Witness ==
    \E p, q \in Procs :
        /\ pc[p] = "done" /\ IsGet(p) /\ req[p].Key = "foo"
        /\ Len(calls[p]) = 1 /\ written[p] = 1
        /\ pc[q] = "done" /\ IsSet(q) /\ req[q].Value = "bar"
        /\ Len(calls[q]) = 1 /\ written[q] = 1

\* ----------------------------------------------------------------- C20 ---
\* C20: the transport status code of an answered request is 400 for an
\* undecodable body, 500 for an unrecognised op and 200 otherwise; for a GET
\* it is 200 whether or not the key was found, and a missing key shows only
\* as Status 500, with an error, inside the payload.
C20_TransportStatus ==
    \A p \in Procs :
        pc[p] = "done"
        => /\ rsp[p].code = IF ~req[p].ok THEN 400
                            ELSE IF req[p].Op \in {"GET", "SET"} THEN 200
                            ELSE 500
           /\ IsGet(p)
              => /\ rsp[p].json /\ rsp[p].Status \in {200, 500}
                 /\ rsp[p].Status = 500 <=> "Error" \in rsp[p].fields

C20_Witness ==
    \E p, q \in Procs :
        /\ pc[p] = "done" /\ IsGet(p) /\ rsp[p].code = 200 /\ rsp[p].Status = 500
        /\ pc[q] = "done" /\ IsGet(q) /\ rsp[q].code = 200 /\ rsp[q].Status = 200

\* ----------------------------------------------------------------- C21 ---
\* C21: Set(k, v) changes only the entry for k: in every step taken while a
\* Set on k is inside its critical section, its own assignment and the steps
\* of the other requests interleaved with it, every key other than k is
\* present after the step exactly if it was before, with the same value.
C21_SetFrame ==
    [][\A p \in Procs :
         (IsSet(p) /\ InCS(p))
         => \A k \in Keys \ {req[p].Key} :
              /\ HasKey(Hashtable(db', heap'), k) <=> HasKey(Hashtable(db, heap), k)
              /\ HasKey(Hashtable(db, heap), k)
                 => Hashtable(db', heap')[k] = Hashtable(db, heap)[k]]_vars

C21_Witness ==
    \E p, q \in Procs :
        /\ pc[p] = "Set_unlock" /\ IsSet(p)
        /\ req[p].Key = "foo" /\ req[p].Value = ""
        /\ HasKey(Hashtable(db, heap), "foo") /\ Hashtable(db, heap)["foo"] = ""
        /\ HasKey(Hashtable(db, heap), "") /\ Hashtable(db, heap)[""] = "bar"
        /\ q # p /\ pc[q] = "Set" /\ req[q].Key = ""
====
